---- MODULE Spec2Model ----
(***************************************************************************)
(* A model of mmworkbench/dialogue.py: DialogueStateRule (construction,    *)
(* apply, complexity), DialogueManager (add_dialogue_rule, apply_handler)  *)
(* and DialogueResponder.                                                  *)
(*                                                                         *)
(* Python values are modelled as follows.  None is the string "None".  A   *)
(* dict whose keys may be missing (kwargs, a request context) is a record  *)
(* with a field keys holding the keys the dict has; the fields of missing  *)
(* keys hold a fixed filler.  An optional set or mapping attribute is a    *)
(* sequence: <<>> for None, <<v>> for the value v.  An exception is the    *)
(* name of its class.                                                      *)
(***************************************************************************)
EXTENDS Integers, Sequences, FiniteSets, TLC

VARIABLES rules, handler_map, last, kw, ctx, pc, res, out, responder, calls, reg

vars == <<rules, handler_map, last, kw, ctx, pc, res, out, responder, calls, reg>>

None == "None"

(* ---------------------------- bounds ----------------------------------- *)
\* longest rule list the registry model grows
MaxRules == 3
\* longest entity list of a request context
MaxEnts == 3
\* most calls made on one responder
MaxCalls == 3

(* ------------------------ entity specifications ------------------------ *)
\* a value passed as entity= or entities=: its Python type (shape), the
\* string (shape "str"), the elements (list, set, frozenset) or the
\* (type, value) pairs (dict)
EntitySpec(shape, s, elems, map) ==
  [shape |-> shape, str |-> s, elems |-> elems, map |-> map]

NoSpec == EntitySpec("none", "", {}, {})

StrSpec(s) == EntitySpec("str", s, {}, {})

ListSpec(elems) == EntitySpec("list", "", elems, {})

SetSpec(elems) == EntitySpec("set", "", elems, {})

DictSpec(map) == EntitySpec("dict", "", {}, map)

IntSpec == EntitySpec("int", "5", {}, {})

Keys(map) == {p[1] : p \in map}

\* the characters of the strings used as entity types
Chars(s) ==
  CASE s = "city" -> {"c", "i", "t", "y"}
    [] s = "date" -> {"d", "a", "t", "e"}
    [] OTHER -> {s}

Hashable(v) == v.shape \in {"str", "int", "none", "frozenset"}

Iterable(v) == v.shape \in {"str", "list", "set", "dict", "frozenset"}

\* frozenset((v,)): the one-element frozenset holding v itself
FrozensetOfOne(v) == EntitySpec("frozenset", "", {v.str}, {})

\* frozenset(v): the elements v iterates over
Frozenset(v) ==
  EntitySpec("frozenset", "",
             CASE v.shape = "str" -> Chars(v.str)
               [] v.shape = "dict" -> Keys(v.map)
               [] OTHER -> v.elems,
             {})

(* ------------------------- DialogueStateRule --------------------------- *)
Rule(dialogue_state, domain, intent, entity_types, entity_mappings) ==
  [dialogue_state |-> dialogue_state, domain |-> domain, intent |-> intent,
   entity_types |-> entity_types, entity_mappings |-> entity_mappings,
   id |-> 0]

NoRule == Rule(None, None, None, <<>>, <<>>)

Built(rule) == [err |-> "none", msg |-> "", rule |-> rule]

Raise(err, msg) == [err |-> err, msg |-> msg, rule |-> NoRule]

\* the (single, plural) pairs of key_kwargs; domain and intent have no
\* plural form
KeyPairsDomainToo == {<<"domain", "domains">>, <<"intent", "intents">>,
                      <<"entity", "entities">>}

KeyPairs == {<<"entity", "entities">>}

\* the loop over key_kwargs: the value of resolved['entities'], or the
\* exception the loop raises
ResolveEntities(kwargs) ==
  IF \E p \in KeyPairs : p[1] \in kwargs.keys /\ p[2] \in kwargs.keys
    THEN [err |-> "ValueError", msg |-> "only_one", val |-> NoSpec]
  ELSE IF "entity" \in kwargs.keys
    THEN IF Hashable(kwargs.entity)
           THEN [err |-> "none", msg |-> "", val |-> FrozensetOfOne(kwargs.entity)]
           ELSE [err |-> "TypeError", msg |-> "unhashable", val |-> NoSpec]
  ELSE IF "entities" \in kwargs.keys
    THEN IF Iterable(kwargs.entities)
           THEN [err |-> "none", msg |-> "", val |-> Frozenset(kwargs.entities)]
           ELSE [err |-> "TypeError", msg |-> "not_iterable", val |-> NoSpec]
  ELSE [err |-> "none", msg |-> "", val |-> NoSpec]

\* the isinstance chain on the resolved entities
Normalize(dialogue_state, domain, intent, entities) ==
  IF entities.shape = "none"
    THEN Built(Rule(dialogue_state, domain, intent, <<>>, <<>>))
  ELSE IF entities.shape = "str"
    THEN Built(Rule(dialogue_state, domain, intent, <<{entities.str}>>, <<>>))
  ELSE IF entities.shape \in {"list", "set"}
    THEN Built(Rule(dialogue_state, domain, intent, <<entities.elems>>, <<>>))
  ELSE IF entities.shape = "dict"
    THEN Built(Rule(dialogue_state, domain, intent, <<>>, <<entities.map>>))
  ELSE Raise("ValueError", "invalid_entity")

\* DialogueStateRule.__init__
DialogueStateRule(dialogue_state, kwargs) ==
  LET r == ResolveEntities(kwargs)
      domain == IF "domain" \in kwargs.keys THEN kwargs.domain ELSE None
      intent == IF "intent" \in kwargs.keys THEN kwargs.intent ELSE None
  IN  IF r.err # "none" THEN Raise(r.err, r.msg)
      ELSE Normalize(dialogue_state, domain, intent, r.val)

\* DialogueStateRule.apply on a dict context: "True", "False", or the
\* exception raised
applyNoIntent(rule, context) ==
  IF rule.domain # None /\ "domain" \notin context.keys THEN "KeyError"
  ELSE IF rule.domain # None /\ rule.domain # context.domain THEN "False"
  ELSE "True"

apply(rule, context) ==
  IF rule.domain # None /\ "domain" \notin context.keys THEN "KeyError"
  ELSE IF rule.domain # None /\ rule.domain # context.domain THEN "False"
  ELSE IF rule.intent # None /\ "intent" \notin context.keys THEN "KeyError"
  ELSE IF rule.intent # None /\ rule.intent # context.intent THEN "False"
  ELSE IF rule.entity_types # <<>>
    \* the loop reads context['entities']; context.entity_types is an
    \* attribute access on a dict
    THEN IF "entities" \notin context.keys THEN "KeyError"
         ELSE "AttributeError"
  ELSE IF rule.entity_mappings # <<>>
    THEN IF "entities" \notin context.keys THEN "KeyError"
         \* entity.type is an attribute access on a dict, evaluated for the
         \* first entity whose type is a key of the mapping
         ELSE IF \E i \in 1..Len(context.entities) :
                   context.entities[i].type \in Keys(rule.entity_mappings[1])
           THEN "AttributeError"
         ELSE IF 0 < Cardinality(rule.entity_mappings[1]) THEN "False"
         ELSE "True"
  ELSE "True"

\* DialogueStateRule.complexity: the tests are truth tests, so an empty
\* string, set or mapping counts as unset
complexity(rule) ==
  (IF rule.domain # None /\ rule.domain # "" THEN 1 ELSE 0)
  + (IF rule.intent # None /\ rule.intent # "" THEN 2 ELSE 0)
  + (IF rule.entity_types # <<>> /\ rule.entity_types[1] # {} THEN 4 ELSE 0)
  + (IF rule.entity_mappings # <<>> /\ rule.entity_mappings[1] # {} THEN 8 ELSE 0)

(* -------------------------- DialogueResponder -------------------------- *)
\* A string is the sequence of its words; the word "{name}" is a
\* replacement field for the slot name.
SlotKeys == {"name"}

FieldKey(word) == IF word = "{name}" THEN "name" ELSE None

\* a slots dict: <<>> where the key is missing, <<value>> where it is set
EmptySlots == [k \in SlotKeys |-> <<>>]

\* DialogueResponder.__init__
DialogueResponder(slots) == [slots |-> slots, client_actions |-> <<>>]

\* text.format(**slots): every replacement field replaced by the slot's
\* value, KeyError when a field names a missing slot
RECURSIVE Format(_, _)
Format(text, slots) ==
  IF text = <<>> THEN [err |-> "none", text |-> <<>>]
  ELSE LET rest == Format(Tail(text), slots)
           key == FieldKey(Head(text))
       IN  IF key = None
             THEN [err |-> rest.err, text |-> <<Head(text)>> \o rest.text]
           ELSE IF slots[key] = <<>> THEN [err |-> "KeyError", text |-> <<>>]
           ELSE [err |-> rest.err, text |-> slots[key][1] \o rest.text]

\* an argument of reply or prompt: its Python type (shape), the string
\* (shape "str") or the elements in the order random.choice indexes them
ReplyArg(shape, text, items) == [shape |-> shape, text |-> text, items |-> items]

NoArg == ReplyArg("none", <<>>, <<>>)

\* a client action; reply and prompt build {'name': ..., 'message': {'text': ...}}
ClientAction(name, text) == [name |-> name, text |-> text]

NoAction == ClientAction("", <<>>)

\* DialogueResponder._choose with random.choice picking index i: the chosen
\* string, the argument itself when it is no tuple, list or set, or
\* IndexError from random.choice on an empty sequence
_chooseFirst(items, i) ==
  IF items.shape \in {"tuple", "list", "set"}
    THEN IF Len(items.items) = 0
           THEN [err |-> "IndexError", chosen |-> NoArg]
           ELSE [err |-> "none", chosen |-> ReplyArg("str", items.items[1], <<>>)]
    ELSE [err |-> "none", chosen |-> items]

_choose(items, i) ==
  IF items.shape \in {"tuple", "list", "set"}
    THEN IF Len(items.items) = 0
           THEN [err |-> "IndexError", chosen |-> NoArg]
           ELSE [err |-> "none", chosen |-> ReplyArg("str", items.items[i], <<>>)]
    ELSE [err |-> "none", chosen |-> items]

\* DialogueResponder.respond
respondFirst(r, action) ==
  [err |-> "none", action |-> action,
   responder |-> [r EXCEPT !.client_actions = <<action>> \o @]]

respond(r, action) ==
  [err |-> "none", action |-> action,
   responder |-> [r EXCEPT !.client_actions = Append(@, action)]]

Failed(r, err) == [err |-> err, action |-> NoAction, responder |-> r]

\* DialogueResponder._reply: text.format is an attribute of str only
_replyUnformatted(r, text, i, action) ==
  LET c == _choose(text, i)
  IN  IF c.err # "none" THEN Failed(r, c.err)
      ELSE IF c.chosen.shape # "str" THEN Failed(r, "AttributeError")
      ELSE respond(r, ClientAction(action, c.chosen.text))

_reply(r, text, i, action) ==
  LET c == _choose(text, i)
  IN  IF c.err # "none" THEN Failed(r, c.err)
      ELSE IF c.chosen.shape # "str" THEN Failed(r, "AttributeError")
      ELSE LET f == Format(c.chosen.text, r.slots)
           IN  IF f.err # "none" THEN Failed(r, f.err)
               ELSE respond(r, ClientAction(action, f.text))

\* DialogueResponder.reply
reply(r, text, i) == _reply(r, text, i, "show-reply")

\* DialogueResponder.prompt
prompt(r, text, i) == _reply(r, text, i, "show-prompt")

\* DialogueResponder.show
show(r, things) == Failed(r, "NotImplementedError")

(* --------------------------- DialogueManager --------------------------- *)
StateNames == {"s1", "s2"}

Handlers == {"h1", "h2"}

\* handler.__name__
HandlerName(handler) == IF handler = "h1" THEN "s1" ELSE "s2"

\* handler_map as a function on the state names; None where the dict has
\* no key (what handler_map.get returns)
EmptyHandlerMap == [n \in StateNames |-> None]

\* list.sort(key=complexity) is stable: built by inserting the elements in
\* list order, each after every element whose key is not larger
InsertBeforeEqual(sorted, r) ==
  LET k == Cardinality({i \in 1..Len(sorted) : complexity(sorted[i]) < complexity(r)})
  IN  SubSeq(sorted, 1, k) \o <<r>> \o SubSeq(sorted, k + 1, Len(sorted))

InsertByKey(sorted, r) ==
  LET k == Cardinality({i \in 1..Len(sorted) : complexity(sorted[i]) <= complexity(r)})
  IN  SubSeq(sorted, 1, k) \o <<r>> \o SubSeq(sorted, k + 1, Len(sorted))

RECURSIVE SortByComplexity(_)
SortByComplexity(rs) ==
  IF rs = <<>> THEN <<>>
  ELSE InsertByKey(SortByComplexity(SubSeq(rs, 1, Len(rs) - 1)), rs[Len(rs)])

\* lines 153-158: the handler table update, or the AssertionError
UpdateAlways(map, name, handler) ==
  IF handler # None
    THEN [err |-> "none", map |-> [map EXCEPT ![name] = handler]]
    ELSE [err |-> "none", map |-> map]

UpdateHandlerMap(map, name, handler) ==
  IF handler # None
    THEN LET old_handler == map[name]
         IN  IF old_handler # None /\ old_handler # handler
               THEN [err |-> "AssertionError", map |-> map]
               ELSE [err |-> "none", map |-> [map EXCEPT ![name] = handler]]
    ELSE [err |-> "none", map |-> map]

\* the for loop of apply_handler from rule i on: the dialogue state of the
\* first rule that applies (index 0 and None when there is none), or the
\* exception apply raises
RECURSIVE Scan(_, _, _)
Scan(rs, i, context) ==
  IF i > Len(rs) THEN [err |-> "none", dialogue_state |-> None, index |-> 0]
  ELSE LET a == apply(rs[i], context)
       IN  IF a = "True"
             THEN [err |-> "none", dialogue_state |-> rs[i].dialogue_state, index |-> i]
           ELSE IF a = "False" THEN Scan(rs, i + 1, context)
           ELSE [err |-> a, dialogue_state |-> None, index |-> i]

DefaultHandler == "_default_handler"

\* positional parameters of a handler: _default_handler is a staticmethod
\* declared (self, context); registered handlers follow the callback
\* signature (context, slots, responder)
Arity(handler) == IF handler = DefaultHandler THEN 2 ELSE 3

Returned(dialogue_state, handler, client_actions) ==
  [err |-> "none", dialogue_state |-> dialogue_state, handler |-> handler,
   client_actions |-> client_actions]

Raised(err) ==
  [err |-> err, dialogue_state |-> None, handler |-> None, client_actions |-> <<>>]

\* what the body of a registered handler does with (context, slots,
\* responder); the responder holds the same slots mapping the handler
\* writes.  "silent" does nothing; "greet" replies Bye when the slot name
\* is set already, and otherwise sets it to Ana, replies Hi {name} and
\* prompts Bye
HandlerBodies == {"silent", "greet"}

RunHandler(body, r) ==
  IF body = "silent" THEN r
  ELSE IF r.slots["name"] # <<>>
    THEN reply(r, ReplyArg("str", <<"Bye">>, <<>>), 1).responder
  ELSE LET r1 == [r EXCEPT !.slots["name"] = <<<<"Ana">>>>]
           r2 == reply(r1, ReplyArg("str", <<"Hi", "{name}">>, <<>>), 1).responder
       IN  prompt(r2, ReplyArg("str", <<"Bye">>, <<>>), 1).responder

\* the responder of lines 179-180: a new object on a new, empty slots dict
DialogueResponderShared(slots) ==
  [slots |-> slots, client_actions |-> last.client_actions]

NewResponder(slots) == DialogueResponder(slots)

\* DialogueManager.apply_handler; body is the body of the registered
\* handlers
apply_handler(rs, map, context, body) ==
  LET s == Scan(rs, 1, context)
  IN  IF s.err # "none" THEN Raised(s.err)
      ELSE IF s.dialogue_state = None
        THEN IF Arity(DefaultHandler) # 3 THEN Raised("TypeError")
             ELSE Returned(None, DefaultHandler, NewResponder(EmptySlots).client_actions)
      ELSE IF map[s.dialogue_state] = None THEN Raised("KeyError")
      ELSE Returned(s.dialogue_state, map[s.dialogue_state],
                    RunHandler(body, NewResponder(EmptySlots)).client_actions)

(* ------------------------------ inputs --------------------------------- *)
KeyNames == {"domain", "intent", "domains", "intents", "entity", "entities"}

\* the values of the domains= and intents= keys are never read
Kwargs(keys, domain, intent, entity, entities) ==
  [keys |-> keys,
   domain |-> IF "domain" \in keys THEN domain ELSE "",
   intent |-> IF "intent" \in keys THEN intent ELSE "",
   entity |-> IF "entity" \in keys THEN entity ELSE NoSpec,
   entities |-> IF "entities" \in keys THEN entities ELSE NoSpec]

NoKwargs == Kwargs({}, "", "", NoSpec, NoSpec)

Context(keys, domain, intent, entities) ==
  [keys |-> keys,
   domain |-> IF "domain" \in keys THEN domain ELSE "",
   intent |-> IF "intent" \in keys THEN intent ELSE "",
   entities |-> IF "entities" \in keys THEN entities ELSE <<>>]

NoContext == Context({}, "", "", <<>>)

Entity(type, value) == [type |-> type, value |-> value]

\* the kwargs the registry model registers with
RegistryKwargs ==
  {Kwargs({}, "", "", NoSpec, NoSpec),
   Kwargs({"domain"}, "weather", "", NoSpec, NoSpec),
   Kwargs({"domain", "intent"}, "weather", "forecast", NoSpec, NoSpec),
   Kwargs({"entities"}, "", "", NoSpec, ListSpec({"city", "date"}))}

\* the contexts the registry model dispatches
RegistryContexts ==
  {Context({"entities"}, "", "", <<>>),
   Context({"entities", "domain"}, "weather", "", <<>>),
   Context({"entities", "domain"}, "food", "", <<>>),
   Context({"entities", "domain", "intent"}, "weather", "forecast", <<>>),
   Context({"entities", "domain", "intent"}, "weather", "greet", <<>>)}

\* the register call in flight: the name it registers under and its
\* handler (None, None when no call is in flight)
NoReg == [name |-> None, handler |-> None]

(* ----------------------------- registry -------------------------------- *)
NoLast ==
  [op |-> "none", name |-> None, handler |-> None, kwargs |-> NoKwargs,
   context |-> NoContext, err |-> "none", dialogue_state |-> None,
   invoked |-> None, body |-> "none", client_actions |-> <<>>]

RegisterResult(name, handler, kwargs, err) ==
  [NoLast EXCEPT !.op = "register", !.name = name, !.handler = handler,
                 !.kwargs = kwargs, !.err = err]

DispatchResult(context, body, r) ==
  [NoLast EXCEPT !.op = "dispatch", !.context = context, !.err = r.err,
                 !.body = IF r.handler \in Handlers THEN body ELSE "none",
                 !.dialogue_state = r.dialogue_state, !.invoked = r.handler,
                 !.client_actions = r.client_actions]

Init ==
  /\ rules = <<>>
  /\ handler_map = EmptyHandlerMap
  /\ last = NoLast
  /\ kw = NoKwargs
  /\ ctx = NoContext
  /\ pc = "idle"
  /\ res = Built(NoRule)
  /\ out = ""
  /\ responder = DialogueResponder(EmptySlots)
  /\ calls = <<>>
  /\ reg = NoReg

\* DialogueManager.add_dialogue_rule(name, handler, **kwargs)
add_dialogue_rule(name, handler, kwargs) ==
  /\ Len(rules) < MaxRules
  /\ IF name = None /\ handler = None
       THEN \* handler.__name__ on None
            /\ last' = RegisterResult(name, handler, kwargs, "AttributeError")
            /\ UNCHANGED <<rules, handler_map>>
       ELSE LET n == IF name = None THEN HandlerName(handler) ELSE name
                c == DialogueStateRule(n, kwargs)
            IN  IF c.err # "none"
                  THEN /\ last' = RegisterResult(name, handler, kwargs, c.err)
                       /\ UNCHANGED <<rules, handler_map>>
                  ELSE LET rule == [c.rule EXCEPT !.id = Len(rules) + 1]
                           u == UpdateHandlerMap(handler_map, n, handler)
                       IN  /\ rules' = SortByComplexity(Append(rules, rule))
                           /\ handler_map' = u.map
                           /\ last' = RegisterResult(name, handler, kwargs, u.err)
  /\ UNCHANGED <<kw, ctx, pc, res, out, responder, calls, reg>>

Register ==
  \E name \in StateNames \cup {None}, handler \in Handlers \cup {None},
     kwargs \in RegistryKwargs :
    add_dialogue_rule(name, handler, kwargs)

\* DialogueManager.apply_handler(context)
Dispatch ==
  \E context \in RegistryContexts, body \in HandlerBodies :
    /\ last' = DispatchResult(context, body,
                              apply_handler(rules, handler_map, context, body))
    /\ UNCHANGED <<rules, handler_map, kw, ctx, pc, res, out, responder, calls, reg>>

Next == Register \/ Dispatch

Spec == Init /\ [][Next]_vars

(* ------------------- one rule: construction and apply ------------------ *)
RuleEntitySpecs ==
  {StrSpec("city"), ListSpec({"city", "date"}), SetSpec({"date"}),
   DictSpec({<<"city", "Paris">>}), IntSpec}

\* the kwargs a rule is constructed from
RuleKwargs ==
  {Kwargs(K, d, i, e, es) :
     K \in SUBSET KeyNames, d \in {"", "weather"}, i \in {"", "forecast"},
     e \in RuleEntitySpecs, es \in RuleEntitySpecs}

ContextEntities ==
  {Entity("city", "Paris"), Entity("city", "London"), Entity("date", "today"),
   Entity("currency", "USD")}

\* entity lists without repeated entities, of at most MaxEnts entities
EntityLists ==
  UNION {{s \in [1..n -> ContextEntities] :
            \A a, b \in 1..n : a # b => s[a] # s[b]} : n \in 0..MaxEnts}

RuleContexts ==
  {Context(K, d, i, es) :
     K \in SUBSET {"domain", "intent", "entities"}, d \in {"weather", "food"},
     i \in {"forecast", "greet"}, es \in EntityLists}

InitRule ==
  /\ rules = <<>>
  /\ handler_map = EmptyHandlerMap
  /\ last = NoLast
  /\ kw \in RuleKwargs
  /\ ctx \in RuleContexts
  /\ pc = "start"
  /\ res = Built(NoRule)
  /\ out = ""
  /\ responder = DialogueResponder(EmptySlots)
  /\ calls = <<>>
  /\ reg = NoReg

\* rule = DialogueStateRule("s1", **kw)
Construct ==
  /\ pc = "start"
  /\ res' = DialogueStateRule("s1", kw)
  /\ pc' = IF res'.err = "none" THEN "built" ELSE "raised"
  /\ UNCHANGED <<rules, handler_map, last, kw, ctx, out, responder, calls, reg>>

\* rule.apply(ctx)
Apply ==
  /\ pc = "built"
  /\ out' = apply(res.rule, ctx)
  /\ pc' = "applied"
  /\ UNCHANGED <<rules, handler_map, last, kw, ctx, res, responder, calls, reg>>

NextRule == Construct \/ Apply

SpecRule == InitRule /\ [][NextRule]_vars

(* ------------------------ one responder's calls ------------------------ *)
Hi == <<"Hi", "{name}">>

Hello == <<"Hello", "{name}">>

Bye == <<"Bye">>

Ana == <<"Ana">>

\* the arguments reply and prompt are called with
ReplyArgs ==
  {ReplyArg("str", Hi, <<>>), ReplyArg("tuple", <<>>, <<Hi, Hello>>),
   ReplyArg("set", <<>>, <<Hello, Bye>>), ReplyArg("list", <<>>, <<>>),
   ReplyArg("frozenset", <<>>, <<Bye>>)}

\* the actions respond is called with
RespondArgs == {ClientAction("show-reply", Bye), ClientAction("custom", Ana)}

\* the indexes random.choice may pick
ChoiceIndexes(x) == IF Len(x.items) = 0 THEN {1} ELSE 1..Len(x.items)

Call(op, x, action, r) ==
  [op |-> op, x |-> x, given |-> action, err |-> r.err, action |-> r.action]

InitResponder ==
  /\ rules = <<>>
  /\ handler_map = EmptyHandlerMap
  /\ last = NoLast
  /\ kw = NoKwargs
  /\ ctx = NoContext
  /\ pc = "responder"
  /\ res = Built(NoRule)
  /\ out = ""
  /\ \E slots \in {EmptySlots, [EmptySlots EXCEPT !["name"] = <<Ana>>]} :
       responder = DialogueResponder(slots)
  /\ calls = <<>>
  /\ reg = NoReg

Called(op, x, action, r) ==
  /\ responder' = r.responder
  /\ calls' = Append(calls, Call(op, x, action, r))
  /\ UNCHANGED <<rules, handler_map, last, kw, ctx, pc, res, out, reg>>

\* responder.reply(x), random.choice picking any index
ReplyWith(x) ==
  \E i \in ChoiceIndexes(x) : Called("reply", x, NoAction, reply(responder, x, i))

CallReply ==
  /\ Len(calls) < MaxCalls
  /\ \E x \in ReplyArgs : ReplyWith(x)

\* responder.prompt(x), random.choice picking any index
PromptWith(x) ==
  \E i \in ChoiceIndexes(x) : Called("prompt", x, NoAction, prompt(responder, x, i))

CallPrompt ==
  /\ Len(calls) < MaxCalls
  /\ \E x \in ReplyArgs : PromptWith(x)

\* responder.respond(action)
CallRespond ==
  /\ Len(calls) < MaxCalls
  /\ \E a \in RespondArgs : Called("respond", NoArg, a, respond(responder, a))

\* responder.show(things)
CallShow ==
  /\ Len(calls) < MaxCalls
  /\ Called("show", NoArg, NoAction, show(responder, NoArg))

\* the handler writes or deletes a slot of the mapping the responder holds
WriteSlot ==
  /\ \E v \in {<<>>, <<Ana>>} :
       /\ responder.slots["name"] # v
       /\ responder' = [responder EXCEPT !.slots["name"] = v]
  /\ UNCHANGED <<rules, handler_map, last, kw, ctx, pc, res, out, calls, reg>>

NextResponder == CallReply \/ CallPrompt \/ CallRespond \/ CallShow \/ WriteSlot

SpecResponder == InitResponder /\ [][NextResponder]_vars

(* ------------- register and dispatch in concurrent threads ------------- *)
\* One thread runs add_dialogue_rule statement by statement (pc is the
\* statement it has reached) while another thread runs apply_handler; the
\* threads share rules and handler_map and nothing orders their
\* statements.  Every call gives a handler.
InitConc ==
  /\ rules = <<>>
  /\ handler_map = EmptyHandlerMap
  /\ last = NoLast
  /\ kw = NoKwargs
  /\ ctx = NoContext
  /\ pc = "idle"
  /\ res = Built(NoRule)
  /\ out = ""
  /\ responder = DialogueResponder(EmptySlots)
  /\ calls = <<>>
  /\ reg = NoReg

\* lines 146-151: the name, the rule, self.rules.append(rule)
RegAppend ==
  /\ pc = "idle"
  /\ Len(rules) < MaxRules
  /\ \E name \in StateNames \cup {None}, handler \in Handlers,
        kwargs \in RegistryKwargs :
       LET n == IF name = None THEN HandlerName(handler) ELSE name
           c == DialogueStateRule(n, kwargs)
       IN  /\ c.err = "none"
           /\ rules' = Append(rules, [c.rule EXCEPT !.id = Len(rules) + 1])
           /\ reg' = [name |-> n, handler |-> handler]
  /\ pc' = "appended"
  /\ UNCHANGED <<handler_map, last, kw, ctx, res, out, responder, calls>>

\* line 152: self.rules.sort(key=...)
RegSort ==
  /\ pc = "appended"
  /\ rules' = SortByComplexity(rules)
  /\ pc' = "sorted"
  /\ UNCHANGED <<handler_map, last, kw, ctx, res, out, responder, calls, reg>>

\* lines 153-158: the handler table update (or the AssertionError)
RegUpdate ==
  /\ pc = "sorted"
  /\ handler_map' = UpdateHandlerMap(handler_map, reg.name, reg.handler).map
  /\ pc' = "idle"
  /\ reg' = NoReg
  /\ UNCHANGED <<rules, last, kw, ctx, res, out, responder, calls>>

\* apply_handler in the other thread
DispatchConc ==
  \E context \in RegistryContexts, body \in HandlerBodies :
    /\ last' = DispatchResult(context, body,
                              apply_handler(rules, handler_map, context, body))
    /\ UNCHANGED <<rules, handler_map, kw, ctx, pc, res, out, responder, calls, reg>>

NextConc == RegAppend \/ RegSort \/ RegUpdate \/ DispatchConc

SpecConc == InitConc /\ [][NextConc]_vars

(* ============================== claims ================================= *)
\* a context that carries domain, intent and entities
WellFormed(context) == context.keys = {"domain", "intent", "entities"}

\* the rules of the registry that apply to a context
Matching(context) == {i \in 1..Len(rules) : apply(rules[i], context) = "True"}

FirstMatching(context) ==
  CHOOSE i \in Matching(context) : \A j \in Matching(context) : i <= j

\* C1: for every reachable rule sequence and every context with a matching
\* rule, dispatch returns the state name of the lowest-index matching rule
\* and invokes the handler of that name.
C1_FirstMatchReturned ==
  (last.op = "dispatch" /\ WellFormed(last.context)
     /\ Matching(last.context) # {})
  => LET first == rules[FirstMatching(last.context)]
     IN  /\ last.err = "none"
         /\ last.dialogue_state = first.dialogue_state
         /\ last.invoked # None
         /\ last.invoked = handler_map[first.dialogue_state]

\* C2: whenever one or more rules match, the dialogue state a dispatch
\* returns and the handler it invokes belong to a matching rule of maximal
\* complexity among the matching rules.
C2_MostComplexMatch ==
  (last.op = "dispatch" /\ last.err = "none" /\ WellFormed(last.context)
     /\ Matching(last.context) # {})
  => \E i \in Matching(last.context) :
       /\ \A j \in Matching(last.context) :
            complexity(rules[j]) <= complexity(rules[i])
       /\ last.dialogue_state = rules[i].dialogue_state
       /\ last.invoked = handler_map[rules[i].dialogue_state]

\* C3: after any sequence of registrations, failing ones included, the rule
\* sequence is sorted by ascending complexity and rules of equal complexity
\* are in registration order (id is the registration number).
C3_SortedStable ==
  \A i, j \in 1..Len(rules) :
    i < j => /\ complexity(rules[i]) <= complexity(rules[j])
             /\ complexity(rules[i]) = complexity(rules[j])
                  => rules[i].id < rules[j].id

\* a failing registration has just appended a rule; two rules tie and a
\* later registered rule was sorted before an earlier one
C3_Witness ==
  /\ last.op = "register" /\ last.err = "AssertionError"
  /\ \E i, j \in 1..Len(rules) :
       i < j /\ complexity(rules[i]) = complexity(rules[j])
  /\ \E i, j \in 1..Len(rules) : i < j /\ rules[i].id > rules[j].id

\* the state name a register call registers under
EffectiveName(name, handler) ==
  IF name = None THEN HandlerName(handler) ELSE name

\* C4: a register call (with a filter specification a rule can be built
\* from) for a name that has a handler fails with AssertionError when the
\* handler differs, and succeeds with the table still mapping the name to
\* that handler when the handler is the same.
C4_HandlerConflict ==
  [][ (/\ last'.op = "register"
       /\ last'.handler # None
       /\ last'.err \notin {"ValueError", "TypeError"}
       /\ handler_map[EffectiveName(last'.name, last'.handler)] # None)
      => LET n == EffectiveName(last'.name, last'.handler)
         IN  IF handler_map[n] # last'.handler
               THEN last'.err = "AssertionError"
               ELSE /\ last'.err = "none"
                    /\ handler_map'[n] = last'.handler
                    /\ handler_map'[n] = handler_map[n] ]_vars

\* a register call has just failed on a conflicting handler
C4_Witness ==
  /\ last.op = "register" /\ last.err = "AssertionError"
  /\ last.handler # None
  /\ handler_map[EffectiveName(last.name, last.handler)] \in Handlers \ {last.handler}

\* C5: when no rule matches the context (or none is registered), dispatch
\* selects the default handler and returns a null dialogue state and no
\* client actions.
C5_DefaultHandlerReturns ==
  (last.op = "dispatch"
     /\ \A i \in 1..Len(rules) : apply(rules[i], last.context) = "False")
  => /\ last.err = "none"
     /\ last.dialogue_state = None
     /\ last.invoked = DefaultHandler
     /\ last.client_actions = <<>>

\* the entity specification of kwargs that give exactly one entity key
EntityKeys(kwargs) == kwargs.keys \cap {"entity", "entities"}

GivenSpec(kwargs) ==
  IF "entity" \in kwargs.keys THEN kwargs.entity ELSE kwargs.entities

\* C6: construction normalizes the entity specification by shape: a string
\* gives entity_types = {string}, a list or set gives entity_types = its
\* elements, a mapping gives entity_mappings = the mapping, each with the
\* other filter unset; another shape fails with ValueError; no entity
\* specification leaves both unset.
C6_EntityNormalization ==
  (pc # "start" /\ Cardinality(EntityKeys(kw)) <= 1)
  => IF EntityKeys(kw) = {}
       THEN /\ res.err = "none"
            /\ res.rule.entity_types = <<>> /\ res.rule.entity_mappings = <<>>
     ELSE IF GivenSpec(kw).shape = "str"
       THEN /\ res.err = "none"
            /\ res.rule.entity_types = <<{GivenSpec(kw).str}>>
            /\ res.rule.entity_mappings = <<>>
     ELSE IF GivenSpec(kw).shape \in {"list", "set"}
       THEN /\ res.err = "none"
            /\ res.rule.entity_types = <<GivenSpec(kw).elems>>
            /\ res.rule.entity_mappings = <<>>
     ELSE IF GivenSpec(kw).shape = "dict"
       THEN /\ res.err = "none"
            /\ res.rule.entity_types = <<>>
            /\ res.rule.entity_mappings = <<GivenSpec(kw).map>>
     ELSE res.err = "ValueError"

\* C7: for a rule built from domain and/or intent only, apply returns true
\* iff each configured filter equals the context's field; a rule without
\* filters applies to every context.
C7_DomainIntentMatch ==
  (pc = "applied" /\ kw.keys \subseteq {"domain", "intent"})
  => (out = "True"
        <=> /\ "domain" \in kw.keys
                 => ("domain" \in ctx.keys /\ ctx.domain = kw.domain)
            /\ "intent" \in kw.keys
                 => ("intent" \in ctx.keys /\ ctx.intent = kw.intent))

\* a rule with both filters has been applied to a context that has the
\* domain but another intent
C7_Witness ==
  /\ pc = "applied" /\ kw.keys = {"domain", "intent"}
  /\ WellFormed(ctx) /\ ctx.domain = kw.domain /\ ctx.intent # kw.intent
  /\ out = "False"

\* the entity types a context holds
ContextTypes(context) ==
  {context.entities[i].type : i \in 1..Len(context.entities)}

\* C8: a rule built with entities = a list or set of types applies to a
\* context exactly when every required type is the type of some entity of
\* the context.
C8_EntityTypeMatch ==
  (/\ pc \in {"raised", "applied"}
   /\ kw.keys = {"entities"} /\ kw.entities.shape \in {"list", "set"}
   /\ WellFormed(ctx))
  => /\ pc = "applied"
     /\ out = "True" <=> kw.entities.elems \subseteq ContextTypes(ctx)

\* C9: a rule built with entities = a mapping type -> value applies to a
\* context exactly when every required pair is the type and value of some
\* entity of the context.
C9_EntityValueMatch ==
  (/\ pc \in {"raised", "applied"}
   /\ kw.keys = {"entities"} /\ kw.entities.shape = "dict"
   /\ WellFormed(ctx))
  => /\ pc = "applied"
     /\ out = "True"
          <=> \A p \in kw.entities.map :
                \E i \in 1..Len(ctx.entities) :
                  ctx.entities[i] = Entity(p[1], p[2])

FlagSum(rule) ==
  (IF rule.domain # None THEN 1 ELSE 0)
  + (IF rule.intent # None THEN 2 ELSE 0)
  + (IF rule.entity_types # <<>> THEN 4 ELSE 0)
  + (IF rule.entity_mappings # <<>> THEN 8 ELSE 0)

\* C11: the complexity of every constructible rule, rules with an empty
\* string as domain or intent included, is 1*[domain present]
\* + 2*[intent present] + 4*[entity types present] + 8*[entity mappings
\* present], a value in 0..15.
C11_ComplexityIsFlagSum ==
  pc \in {"built", "applied"}
  => /\ complexity(res.rule) = FlagSum(res.rule)
     /\ complexity(res.rule) \in 0..15

\* the calls on the responder that returned normally, in call order
OkCalls == SelectSeq(calls, LAMBDA c : c.err = "none")

\* C12: after any sequence of reply, prompt, respond and show calls the
\* client actions are exactly the actions the successful calls appended, one
\* per call and in call order (each as it was when appended); respond
\* appends its argument verbatim; show fails with NotImplementedError and
\* appends nothing.
C12_OneActionPerCall ==
  /\ Len(responder.client_actions) = Len(OkCalls)
  /\ \A k \in 1..Len(OkCalls) : responder.client_actions[k] = OkCalls[k].action
  /\ \A k \in 1..Len(calls) :
       /\ calls[k].op = "show" => calls[k].err = "NotImplementedError"
       /\ calls[k].op = "respond"
            => (calls[k].err = "none" /\ calls[k].action = calls[k].given)
       /\ calls[k].err = "none" => calls[k].action # NoAction

\* the same action was appended twice around a failing show
C12_Witness ==
  /\ Len(calls) = 3
  /\ calls[1].err = "none" /\ calls[2].op = "show" /\ calls[3].err = "none"
  /\ Len(responder.client_actions) = 2
  /\ responder.client_actions[1] = responder.client_actions[2]

\* the strings reply(x) may choose from
Candidates(x) ==
  IF x.shape = "str" THEN {x.text} ELSE {x.items[i] : i \in 1..Len(x.items)}

\* the slot-substituted forms of the candidates that have one
Forms(x, slots) ==
  {Format(t, slots).text :
     t \in {c \in Candidates(x) : Format(c, slots).err = "none"}}

ActionName(op) == IF op = "reply" THEN "show-reply" ELSE "show-prompt"

\* a reply or prompt call on a string or a tuple, list or set of strings
\* appends exactly one action, named after the call, whose text is the
\* substituted form of the string or of a member; it fails, appending
\* nothing, only on an empty collection or a field without slot
C13_Step ==
  (/\ Len(calls') = Len(calls) + 1
   /\ calls'[Len(calls')].op \in {"reply", "prompt"}
   /\ calls'[Len(calls')].x.shape \in {"str", "tuple", "list", "set"})
  => LET c == calls'[Len(calls')]
     IN  /\ c.err = "none"
              => \E t \in Forms(c.x, responder.slots) :
                   responder'.client_actions =
                     Append(responder.client_actions,
                            ClientAction(ActionName(c.op), t))
         /\ c.err # "none"
              => /\ responder' = responder
                 /\ \/ Candidates(c.x) = {}
                    \/ \E u \in Candidates(c.x) :
                         Format(u, responder.slots).err # "none"
         /\ (Candidates(c.x) # {}
               /\ \A u \in Candidates(c.x) : Format(u, responder.slots).err = "none")
              => c.err = "none"

\* every member's substituted form can be the text the call appends
C13_Possible ==
  Len(calls) < MaxCalls
  => \A x \in ReplyArgs :
       x.shape \in {"str", "tuple", "list", "set"}
       => \A t \in Forms(x, responder.slots) :
            /\ ENABLED (/\ ReplyWith(x)
                        /\ responder'.client_actions =
                             Append(responder.client_actions,
                                    ClientAction("show-reply", t)))
            /\ ENABLED (/\ PromptWith(x)
                        /\ responder'.client_actions =
                             Append(responder.client_actions,
                                    ClientAction("show-prompt", t)))

\* C13: reply(x) appends exactly one show-reply action and prompt(x) exactly
\* one show-prompt action whose text is the slot-substituted form of x (a
\* string) or of a member of x (a tuple, list or set of strings); the form
\* of every member is a possible text and no other text is.
C13_ChosenText == [][C13_Step]_vars /\ []C13_Possible

\* reply on the tuple (Hi {name}, Hello {name}) with slot name = Ana chose
\* the second member
C13_Witness ==
  /\ calls # <<>>
  /\ calls[Len(calls)].op = "reply"
  /\ calls[Len(calls)].x = ReplyArg("tuple", <<>>, <<Hi, Hello>>)
  /\ calls[Len(calls)].err = "none"
  /\ responder.client_actions[Len(responder.client_actions)]
       = ClientAction("show-reply", <<"Hello", "Ana">>)

\* C15: apply on a context that lacks domain, intent or entities fails with
\* an error, whatever filters the rule has; it returns neither true nor
\* false.
C15_MissingFieldFails ==
  (pc = "applied" /\ ~WellFormed(ctx)) => out \notin {"True", "False"}

\* C18: every dispatch starts from an empty slots mapping and a responder
\* without actions: the client actions a dispatch returns are exactly the
\* actions its own handler invocation appends, in order, whatever earlier
\* dispatches wrote (the handler body greet writes the slot name and appends
\* two actions when it finds the slot unset); dispatch leaves the rule
\* sequence and the handler table unchanged.
C18_FreshResponder ==
  /\ [](last.op = "dispatch" /\ last.err = "none"
          => /\ last.body = "silent" => last.client_actions = <<>>
             /\ last.body = "greet"
                  => last.client_actions
                       = << [name |-> "show-reply", text |-> <<"Hi", "Ana">>],
                            [name |-> "show-prompt", text |-> <<"Bye">>] >>)
  /\ [][last'.op = "dispatch"
          => (rules' = rules /\ handler_map' = handler_map)]_vars

\* a dispatch has returned the two actions of the handler body greet
C18_Witness ==
  /\ last.op = "dispatch" /\ last.err = "none" /\ last.body = "greet"
  /\ Len(last.client_actions) = 2
  /\ last.invoked = handler_map[last.dialogue_state]

\* two rules with the same state name and filters (two rule objects)
SameRule(a, b) == [a EXCEPT !.id = 0] = [b EXCEPT !.id = 0]

\* what the scan of a dispatch selects in a rule sequence
Selected(rs, context) ==
  LET s == Scan(rs, 1, context)
  IN  <<s.err, s.dialogue_state>>

\* C14: registering a (name, handler, kwargs) that is registered already
\* (a rule with that name and those filters is in the sequence and the
\* handler, if given, is the name's handler) succeeds, adds one duplicate
\* rule, leaves the handler table unchanged and changes the dialogue state
\* dispatch selects for no context.
C14_Idempotent ==
  [][ LET n == EffectiveName(last'.name, last'.handler)
          c == DialogueStateRule(n, last'.kwargs)
      IN  (/\ last'.op = "register"
           /\ last'.name # None \/ last'.handler # None
           /\ Len(rules) < MaxRules
           /\ c.err = "none"
           /\ \E i \in 1..Len(rules) : SameRule(rules[i], c.rule)
           /\ last'.handler # None => handler_map[n] = last'.handler)
          => /\ last'.err = "none"
             /\ Len(rules') = Len(rules) + 1
             /\ \E j \in 1..Len(rules') :
                  /\ SameRule(rules'[j], c.rule)
                  /\ rules = SubSeq(rules', 1, j - 1)
                               \o SubSeq(rules', j + 1, Len(rules'))
             /\ handler_map' = handler_map
             /\ \A context \in RegistryContexts :
                  Selected(rules', context) = Selected(rules, context) ]_vars

\* the same name, handler and filters have been registered twice, after a
\* rule of the same complexity under another name
C14_Witness ==
  /\ last.op = "register" /\ last.err = "none" /\ last.handler # None
  /\ Len(rules) = 3
  /\ SameRule(rules[2], rules[3])
  /\ complexity(rules[1]) = complexity(rules[2])
  /\ rules[1].dialogue_state # rules[2].dialogue_state
  /\ rules[3].dialogue_state = EffectiveName(last.name, last.handler)
  /\ handler_map[rules[3].dialogue_state] = last.handler

\* C16: in every state reachable by register calls, every rule's state name
\* is a key of the handler table.
C16_EveryRuleHasHandler ==
  \A i \in 1..Len(rules) : handler_map[rules[i].dialogue_state] # None

\* C17: a register call that fails leaves the rule sequence and the handler
\* table as they were.
C17_FailedRegisterNoChange ==
  [][ (last'.op = "register" /\ last'.err # "none")
      => (rules' = rules /\ handler_map' = handler_map) ]_vars

\* C19: a dispatch that runs while a register call is between its
\* statements never scans a rule sequence that is not sorted by ascending
\* complexity and never selects a rule whose state name has no handler.
C19_NoIntermediateState ==
  [][ last'.op = "dispatch"
      => /\ \A i, j \in 1..Len(rules) :
              i < j => complexity(rules[i]) <= complexity(rules[j])
         /\ LET s == Scan(rules, 1, last'.context)
            IN  (s.err = "none" /\ s.dialogue_state # None)
                => handler_map[s.dialogue_state] # None ]_vars

====
